---- MODULE Spec2Model ----
(***************************************************************************)
(* StarButtonBox host: the UDP dispatch loop of server.py (main), the     *)
(* drag-loop controller of auto_drag_handler.py and the action executor   *)
(* of input_simulator.py.                                                  *)
(*                                                                         *)
(* The dispatch loop is one thread: recvfrom, decode, branch on the packet *)
(* type, reply, loop.  The controller is a set of module globals that any  *)
(* number of caller threads and drag-task threads read and write.          *)
(***************************************************************************)
EXTENDS Integers, Sequences, FiniteSets, TLC

(***************************************************************************)
(* Bounds of the model.                                                    *)
(***************************************************************************)
MaxPackets == 3      \* datagrams the receive loop takes in one run
MaxTasks == 3        \* drag-task threads ever created in one run
\* stop threads the GUI may create, and callbacks the tray may have pending
MaxStops == 2
MaxQueue == 2

(***************************************************************************)
(* server.py: wire values.                                                 *)
(***************************************************************************)
PACKET_TYPE_HEALTH_CHECK_PING == "HEALTH_CHECK_PING"
PACKET_TYPE_HEALTH_CHECK_PONG == "HEALTH_CHECK_PONG"
PACKET_TYPE_MACRO_COMMAND == "MACRO_COMMAND"
PACKET_TYPE_MACRO_ACK == "MACRO_ACK"

\* Values of the "packetId" field as packet_data.get('packetId') returns them:
\* "absent" is None (field missing or null); "int0" and "strEmpty" are the
\* supplied values 0 and ""; "int7" and "str42" are 7 and "42".
PacketIds == {"absent", "int0", "strEmpty", "int7", "str42"}

\* Python truth value of a packetId, as `if packet_id:` tests it.
IdTruthy_Always(id) == TRUE
IdTruthy(id) == id \notin {"absent", "int0", "strEmpty"}

\* Values of the "payload" field of a MACRO_COMMAND:
\*   missing     no payload field (None)
\*   empty       the empty string
\*   nonstring   a JSON value that is not a string (json.loads raises TypeError)
\*   badjson     a string that is not JSON
\*   nondict     a JSON document that is not an object (.get raises)
\*   unknown     an object whose "type" is none of the three subtypes
\*   tap         a key_event with pressType tap
\*   hold        a key_event with pressType hold and durationMs > 0
\*   badshape    a key_event whose pressType is not an object (the executor
\*               raises before its own try block)
Payloads == {"missing", "empty", "nonstring", "badjson", "nondict",
             "unknown", "tap", "hold", "badshape"}

\* Python truth value of payload_str, as `if payload_str:` tests it.
PayloadTruthy(p) == p \notin {"missing", "empty"}

\* json.loads(payload_str) followed by action_data.get('type'): the exception
\* raised, or "none".
LoadsPayload(p) ==
    CASE p = "badjson" -> "JSONDecodeError"
      [] p = "nonstring" -> "TypeError"
      [] p = "nondict" -> "AttributeError"
      [] OTHER -> "none"

\* The branch of the action_subtype chain the payload takes.
IsExecutorSubtype_NoTap(p) == p \in {"hold", "badshape"}
IsExecutorSubtype(p) == p \in {"tap", "hold", "badshape"}

\* A datagram: enc tells how far the decoding of the bytes gets.
\*   badutf8   bytes.decode('utf-8') raises UnicodeDecodeError
\*   badjson   json.loads raises JSONDecodeError
\*   nondict   valid JSON that is not an object: packet_data.get raises
\*   ok        a JSON object with the fields type, packetId, payload
OtherTypes == {PACKET_TYPE_HEALTH_CHECK_PONG, "AUTO_DRAG_LOOP_COMMAND",
               "CAPTURE_MOUSE_POSITION", "UNKNOWN_TYPE", "absent"}

\* lines 294, 315, 373: the if/elif/else on packet_type
Branch_PongAsPing(t) ==
    CASE t \in {PACKET_TYPE_HEALTH_CHECK_PING, PACKET_TYPE_HEALTH_CHECK_PONG} -> "ping"
      [] t = PACKET_TYPE_MACRO_COMMAND -> "macro"
      [] OTHER -> "unknown"
Branch(t) ==
    CASE t = PACKET_TYPE_HEALTH_CHECK_PING -> "ping"
      [] t = PACKET_TYPE_MACRO_COMMAND -> "macro"
      [] OTHER -> "unknown"

Malformed ==
    { [enc |-> e, type |-> "absent", id |-> "absent", payload |-> "missing"] :
        e \in {"badutf8", "badjson", "nondict"} }

Pings ==
    { [enc |-> "ok", type |-> PACKET_TYPE_HEALTH_CHECK_PING, id |-> i,
       payload |-> "missing"] : i \in PacketIds }

Macros ==
    { [enc |-> "ok", type |-> PACKET_TYPE_MACRO_COMMAND, id |-> i,
       payload |-> p] : i \in PacketIds, p \in Payloads }

\* the payloads that packets of the other types are sent with: the command of
\* an AUTO_DRAG_LOOP_COMMAND, the purpose of a CAPTURE_MOUSE_POSITION
OtherPayloads(t) ==
    CASE t = "AUTO_DRAG_LOOP_COMMAND" -> {"START", "STOP"}
      [] t = "CAPTURE_MOUSE_POSITION" -> {"SRC", "DES"}
      [] OTHER -> {"missing"}

Others ==
    UNION { { [enc |-> "ok", type |-> t, id |-> i, payload |-> p] :
                i \in {"absent", "str42"}, p \in OtherPayloads(t) } :
            t \in OtherTypes }

Datagrams == Malformed \cup Pings \cup Macros \cup Others

NoPacket == [enc |-> "none", type |-> "absent", id |-> "absent",
             payload |-> "missing"]

\* The exception the decoding of a datagram raises (lines 279-292), or "none".
DecodeException(d) ==
    CASE d.enc = "badutf8" -> "UnicodeDecodeError"
      [] d.enc = "badjson" -> "JSONDecodeError"
      [] d.enc = "nondict" -> "AttributeError"
      [] OTHER -> "none"

\* The except clauses inside the while loop (lines 285, 377, 380) catch every
\* Exception; SystemExit, raised by the signal handler, is not one.
\* The except clauses of the payload's try (lines 333, 336) catch every
\* Exception.
MacroCatches_OnlyJson(exc) == exc = "JSONDecodeError"
MacroCatches(exc) == exc # "SystemExit"

LoopCatches_OnlyJson(exc) == exc = "JSONDecodeError"
LoopCatches(exc) == exc # "SystemExit"

VARIABLES
    mainPc,      \* where the thread running main() is
    packet,      \* the datagram of the current iteration
    ack_sent,    \* the local ack_sent of the MACRO_COMMAND branch
    ev,          \* what the current iteration has done, in order
    received,    \* datagrams taken so far
    malformed,   \* of those, how many failed to decode
    signalled,   \* handle_shutdown has run
    zeroconf,        \* the global zeroconf: "None" or "open"
    service_info,    \* the global service_info: "None" or "set"
    server_socket,   \* the socket of main(): "none", "unbound", "bound", "closed"
    mainResult,      \* how main() ended for its caller, "running" until then
    bind_error,      \* the exception caught at line 385 came from bind
    mdns_error,      \* register_mdns_service() failed
    sig_pending,     \* SIGINT/SIGTERM was raised and its handler has not run yet
    eintr,           \* the platform runs the handler while recvfrom blocks
    cleaned          \* the finally clause of main() ran to its end

startVars == <<zeroconf, service_info, server_socket, mainResult, bind_error,
               mdns_error, sig_pending, eintr, cleaned>>

serverVars == <<mainPc, packet, ack_sent, ev, received, malformed, signalled,
                startVars>>

(***************************************************************************)
(* auto_drag_handler.py: the module globals (lines 10-13), the threads     *)
(* that call capture/start/stop, and the drag-task threads.                *)
(***************************************************************************)
VARIABLES
    captured_src_position,   \* None or a point
    captured_dest_position,  \* None or a point
    stop_drag_loop_event,    \* the Event's flag
    auto_drag_thread,        \* None or the thread object last assigned
    task,                    \* each thread object's state
    caller,                  \* each calling thread: where it is in start/stop
    raised,                  \* a call of start/stop ended in an exception
    timedOut,                \* some join(timeout=2.0) returned with the thread alive
    cleanStop,               \* the last stop() joined, saw the thread dead and
                             \*   returned, and start() has not been called since
    stopCalled,              \* some caller has called stop() itself
    refused                  \* the last start() returned at line 99

dragVars == <<captured_src_position, captured_dest_position,
              stop_drag_loop_event, auto_drag_thread, task, caller,
              raised, timedOut, cleanStop, stopCalled, refused>>

(***************************************************************************)
(* input_simulator.py: one call of execute_key_event, execute_mouse_event *)
(* or execute_mouse_scroll, and the pydirectinput calls it has made.       *)
(***************************************************************************)
VARIABLES
    xdata,      \* the parsed action, the parameter data
    xts,        \* the parameter packet_decoded_time_ns: "None" or "set"
    xpc,        \* the statement the call is at
    xi,         \* position in the modifier loop being run
    xcalls,     \* the calls made so far, each with its outcome
    xheld       \* the keys and buttons that are down

execVars == <<xdata, xts, xpc, xi, xcalls, xheld>>

(***************************************************************************)
(* server_gui.py and system_tray_handler.py: the server lifecycle as the   *)
(* GUI drives it.  The Tk main thread runs one handler at a time; the tray *)
(* thread posts callbacks to it; each stop runs in a thread of its own.    *)
(***************************************************************************)
VARIABLES
    server_thread,       \* server_control.server_thread: "None", "alive", "dead"
    stop_requested,      \* a stop_server() call has told the listener to end
    server_stop_thread,  \* self.server_stop_thread: 0 (None) or a stop thread
    stopper,             \* each stop thread: where it is, and what it posts at its end
    tk_queue,            \* callbacks posted with root.after(0, ...), oldest first
    start_stop_button,   \* state of the Start/Stop button: "normal", "disabled"
    controls_state,      \* state of the port entry, Apply button, mDNS checkbox
    startDuringStop      \* start_server() was called while a stop_server() call
                         \*   had not returned

guiVars == <<server_thread, stop_requested, server_stop_thread, stopper,
             tk_queue, start_stop_button, controls_state, startDuringStop>>

vars == <<serverVars, dragVars, execVars, guiVars>>

Event(k, ok) == [k |-> k, ok |-> ok, id |-> packet.id]

ServerInit ==
    /\ mainPc = "register_mdns"
    /\ zeroconf = "None"
    /\ service_info = "None"
    /\ server_socket = "none"
    /\ mainResult = "running"
    /\ bind_error = FALSE
    /\ mdns_error = FALSE
    /\ sig_pending = FALSE
    /\ cleaned = FALSE
    /\ packet = NoPacket
    /\ ack_sent = FALSE
    /\ ev = <<>>
    /\ received = 0
    /\ malformed = 0
    /\ signalled = FALSE

\* the platform the process runs on: one where a signal interrupts a blocking
\* socket call and its handler runs at once (POSIX), or one where the handler
\* waits until the call has returned (Windows)
PlatformAny == eintr \in BOOLEAN
PlatformPosix == eintr = TRUE

\* the main thread goes on with main() only when no signal is pending: the
\* interpreter runs the handler of a pending signal before the next statement
MainRuns == ~sig_pending

\* lines 230-249: unregister_mdns_service() unregisters and closes what there
\* is, inside its own try, and clears both globals whatever happened
UnregisterMdns_KeepsServiceInfo == zeroconf' = "None" /\ UNCHANGED service_info
UnregisterMdns == zeroconf' = "None" /\ service_info' = "None"

\* the statements of main() that the try of line 271 covers
InsideTry ==
    mainPc \notin {"register_mdns", "bind", "finally_close",
                   "finally_unregister", "terminated"}

\* lines 263-267 with 193-228: register_mdns_service(); when it failed,
\* zeroconf is None and main() returns
RegisterMdns(ok) ==
    /\ MainRuns
    /\ mainPc = "register_mdns"
    /\ IF ok
       THEN /\ zeroconf' = "open"
            /\ service_info' = "set"
            /\ mainPc' = "bind"
            /\ UNCHANGED <<mainResult, mdns_error>>
       ELSE /\ zeroconf' = "None"
            /\ service_info' \in {"None", "set"}
            /\ mainPc' = "terminated"
            /\ mainResult' = "returned"
            /\ mdns_error' = TRUE
    /\ UNCHANGED <<dragVars, execVars, guiVars, packet, ack_sent, ev, received, malformed,
                   signalled, server_socket, bind_error, sig_pending, eintr,
                   cleaned>>

\* lines 269-274: the socket is made and bound; an exception of bind is caught
\* at line 385, printed, and the finally clause is entered
Bind(ok) ==
    /\ MainRuns
    /\ mainPc = "bind"
    /\ IF ok
       THEN /\ server_socket' = "bound"
            /\ mainPc' = "recvfrom"
            /\ UNCHANGED bind_error
       ELSE /\ server_socket' = "unbound"
            /\ bind_error' = TRUE
            /\ mainPc' = "finally_close"
    /\ UNCHANGED <<dragVars, execVars, guiVars, packet, ack_sent, ev, received, malformed,
                   signalled, zeroconf, service_info, mainResult, mdns_error,
                   sig_pending, eintr, cleaned>>

\* lines 388-392: the finally clause closes the socket
FinallyClose ==
    /\ MainRuns
    /\ mainPc = "finally_close"
    /\ server_socket' = "closed"
    /\ mainPc' = "finally_unregister"
    /\ UNCHANGED <<dragVars, execVars, guiVars, packet, ack_sent, ev, received, malformed,
                   signalled, zeroconf, service_info, mainResult, bind_error,
                   mdns_error, sig_pending, eintr, cleaned>>

\* line 393: the finally clause unregisters the service; main() then ends,
\* with the SystemExit of the handler if that is what it is leaving with
FinallyUnregister ==
    /\ MainRuns
    /\ mainPc = "finally_unregister"
    /\ UnregisterMdns
    /\ cleaned' = TRUE
    /\ mainResult' = IF signalled THEN "SystemExit" ELSE "returned"
    /\ mainPc' = "terminated"
    /\ UNCHANGED <<dragVars, execVars, guiVars, packet, ack_sent, ev, received, malformed,
                   signalled, server_socket, bind_error, mdns_error, sig_pending,
                   eintr>>

\* line 278: server_socket.recvfrom(BUFFER_SIZE) returns a datagram; with a
\* signal pending it gets to return only where the call is not interrupted
Recvfrom(d) ==
    /\ sig_pending => ~eintr
    /\ mainPc = "recvfrom"
    /\ received < MaxPackets
    /\ packet' = d
    /\ ev' = <<>>
    /\ ack_sent' = FALSE
    /\ received' = received + 1
    /\ mainPc' = "decode"
    /\ UNCHANGED <<dragVars, execVars, guiVars, startVars, malformed, signalled>>

Receive == \E d \in Datagrams : Recvfrom(d)

\* lines 279-292 on a datagram whose decoding raises: the handler of the
\* exception, inside the loop if one catches it, else the outer one (385-393).
DecodeFails ==
    /\ MainRuns
    /\ mainPc = "decode"
    /\ DecodeException(packet) # "none"
    /\ malformed' = malformed + 1
    /\ mainPc' = IF LoopCatches(DecodeException(packet))
                 THEN "recvfrom" ELSE "finally_close"
    /\ UNCHANGED <<dragVars, execVars, guiVars, startVars, packet, ack_sent, ev, received, signalled>>

\* lines 290-315, 373: the branch on packet_type
Dispatch ==
    /\ MainRuns
    /\ mainPc = "decode"
    /\ DecodeException(packet) = "none"
    /\ mainPc' =
         CASE Branch(packet.type) = "ping" ->
                IF IdTruthy(packet.id) THEN "pong" ELSE "recvfrom"
           [] Branch(packet.type) = "macro" ->
                IF PayloadTruthy(packet.payload) THEN "macro_try" ELSE "macro_ack2"
           [] OTHER -> "recvfrom"
    /\ UNCHANGED <<dragVars, execVars, guiVars, startVars, packet, ack_sent, ev, received, malformed, signalled>>

\* lines 298-310: the PONG is sent, or sendto raises and the error is logged
SendPong ==
    /\ MainRuns
    /\ mainPc = "pong"
    /\ \E ok \in BOOLEAN : ev' = Append(ev, Event("pong", ok))
    /\ mainPc' = "recvfrom"
    /\ UNCHANGED <<dragVars, execVars, guiVars, startVars, packet, ack_sent, received, malformed, signalled>>

\* An exception `exc` is raised inside the payload's try, `events` being what
\* the iteration has done by then.  Caught at 333-338, the finally clause
\* follows; otherwise the finally clause sends its ACK on the way out and the
\* handlers of the loop (377-382) or of main() (385) get the exception.
MacroRaise(exc, events) ==
    IF MacroCatches(exc)
    THEN ev' = events /\ mainPc' = "macro_finally"
    ELSE /\ \E ok \in BOOLEAN :
              ev' = Append(IF IdTruthy(packet.id)
                           THEN Append(events, Event("ack", ok)) ELSE events,
                           Event("loop_error", FALSE))
         /\ mainPc' = IF LoopCatches(exc) THEN "recvfrom" ELSE "finally_close"

\* lines 320-338 when no executor is called: the payload does not decode, or
\* its subtype is unknown
MacroNoExecutor ==
    /\ MainRuns
    /\ mainPc = "macro_try"
    /\ IF LoadsPayload(packet.payload) # "none"
       THEN MacroRaise(LoadsPayload(packet.payload), ev)
       ELSE /\ ~IsExecutorSubtype(packet.payload)
            /\ mainPc' = "macro_finally"
            /\ UNCHANGED ev
    /\ UNCHANGED <<dragVars, execVars, guiVars, startVars, packet, ack_sent, received, malformed, signalled>>

\* lines 324-329: the call of execute_key_event / _mouse_event / _mouse_scroll
ExecutorCall ==
    /\ MainRuns
    /\ mainPc = "macro_try"
    /\ LoadsPayload(packet.payload) = "none"
    /\ IsExecutorSubtype(packet.payload)
    /\ ev' = Append(ev, Event("exec_start", TRUE))
    /\ mainPc' = "executing"
    /\ UNCHANGED <<dragVars, execVars, guiVars, startVars, packet, ack_sent, received, malformed, signalled>>

\* lines 31-32: press_type_data.get on a pressType that is not an object
\* raises out of the executor; main catches it at line 336
ExecutorRaises ==
    /\ MainRuns
    /\ mainPc = "executing"
    /\ packet.payload = "badshape"
    /\ MacroRaise("AttributeError", Append(ev, Event("exec_raise", FALSE)))
    /\ UNCHANGED <<dragVars, execVars, guiVars, startVars, packet, ack_sent, received, malformed, signalled>>

\* lines 58-61: keyDown, then time.sleep(duration_sec) blocks the caller
ExecutorHolds ==
    /\ MainRuns
    /\ mainPc = "executing"
    /\ packet.payload = "hold"
    /\ mainPc' = "holding"
    /\ UNCHANGED <<dragVars, execVars, guiVars, startVars, packet, ack_sent, ev, received, malformed, signalled>>

\* the executor returns: after press (tap), or after the sleep and keyUp (hold)
ExecutorReturns ==
    /\ MainRuns
    /\ \/ mainPc = "executing" /\ packet.payload = "tap"
       \/ mainPc = "holding"
    /\ ev' = Append(ev, Event("exec_end", TRUE))
    /\ mainPc' = "macro_finally"
    /\ UNCHANGED <<dragVars, execVars, guiVars, startVars, packet, ack_sent, received, malformed, signalled>>

\* lines 339-355: the finally clause of the payload's try
MacroFinally ==
    /\ MainRuns
    /\ mainPc = "macro_finally"
    /\ IF IdTruthy(packet.id)
       THEN \E ok \in BOOLEAN :
              /\ ev' = Append(ev, Event("ack", ok))
              /\ ack_sent' = ok
       ELSE UNCHANGED <<ev, ack_sent>>
    /\ mainPc' = "macro_ack2"
    /\ UNCHANGED <<dragVars, execVars, guiVars, startVars, packet, received, malformed, signalled>>

\* lines 360-370: `if not ack_sent and packet_id`
MacroAck2 ==
    /\ MainRuns
    /\ mainPc = "macro_ack2"
    /\ IF ~ack_sent /\ IdTruthy(packet.id)
       THEN \E ok \in BOOLEAN : ev' = Append(ev, Event("ack", ok))
       ELSE UNCHANGED ev
    /\ mainPc' = "recvfrom"
    /\ UNCHANGED <<dragVars, execVars, guiVars, startVars, packet, ack_sent, received, malformed, signalled>>

\* SIGINT or SIGTERM is raised for the process (handlers set at lines 260-261)
RaiseSignal ==
    /\ mainPc # "terminated"
    /\ ~sig_pending
    /\ sig_pending' = TRUE
    /\ UNCHANGED <<dragVars, execVars, guiVars, mainPc, packet, ack_sent, ev, received,
                   malformed, signalled, zeroconf, service_info, server_socket,
                   mainResult, bind_error, mdns_error, eintr, cleaned>>

\* lines 251-256: the main thread runs handle_shutdown for a pending signal:
\* it unregisters the service, and its sys.exit(0) raises SystemExit through
\* whatever main() was doing.  Inside the try of line 271 the finally clause
\* is entered; elsewhere main() is left at once.  While the thread is blocked
\* in recvfrom (line 278, no timeout set) the handler runs only on a platform
\* that interrupts the call.
HandleShutdown ==
    /\ sig_pending
    /\ mainPc # "terminated"
    /\ mainPc = "recvfrom" => eintr
    /\ sig_pending' = FALSE
    /\ signalled' = TRUE
    /\ UnregisterMdns
    /\ IF LoopCatches("SystemExit")
       THEN UNCHANGED <<mainPc, mainResult>>
       ELSE IF InsideTry
       THEN mainPc' = "finally_close" /\ UNCHANGED mainResult
       ELSE mainPc' = "terminated" /\ mainResult' = "SystemExit"
    /\ UNCHANGED <<dragVars, execVars, guiVars, packet, ack_sent, ev, received, malformed,
                   server_socket, bind_error, mdns_error, eintr, cleaned>>

ServerNext ==
    \/ \E ok \in BOOLEAN : RegisterMdns(ok)
    \/ \E ok \in BOOLEAN : Bind(ok)
    \/ Receive
    \/ DecodeFails
    \/ Dispatch
    \/ SendPong
    \/ MacroNoExecutor
    \/ ExecutorCall
    \/ ExecutorRaises
    \/ ExecutorHolds
    \/ ExecutorReturns
    \/ MacroFinally
    \/ MacroAck2
    \/ RaiseSignal
    \/ HandleShutdown
    \/ FinallyClose
    \/ FinallyUnregister

(***************************************************************************)
(* auto_drag_handler.py                                                    *)
(***************************************************************************)
None == 0
Points == {1, 2}              \* what pyautogui.position() can return
TaskIds == 1..MaxTasks
Purposes == {"SRC", "DES", "OTHER"}

\* threading.Thread.is_alive(): started and not yet finished
IsAlive(t) == task[t] \notin {"unborn", "created", "finished"}

LiveTasks == {t \in TaskIds : IsAlive(t)}

\* truth value of the global auto_drag_thread, the first operand of lines 101
\* and 117
ThreadSet_Always == TRUE
ThreadSet == auto_drag_thread # None

\* line 121: join(timeout=2.0) on thread t returns when t has finished, or
\* when the 2 seconds have passed with t still alive
JoinReturns_NoTimeout(t) == ~IsAlive(t)
JoinReturns(t) == ~IsAlive(t) \/ IsAlive(t)

\* line 96 (and line 72): `captured_src_position is None or captured_dest_position is None`
EndpointUnset_SrcOnly == captured_src_position = None
EndpointUnset == captured_src_position = None \/ captured_dest_position = None

Frame(pc, ret, clean) == [pc |-> pc, ret |-> ret, clean |-> clean]
Idle == Frame("idle", "caller", FALSE)

DragInit(callers) ==
    /\ captured_src_position = None
    /\ captured_dest_position = None
    /\ stop_drag_loop_event = FALSE
    /\ auto_drag_thread = None
    /\ task = [t \in TaskIds |-> "unborn"]
    /\ caller = [c \in callers |-> Idle]
    /\ raised = FALSE
    /\ timedOut = FALSE
    /\ cleanStop = FALSE
    /\ stopCalled = FALSE
    /\ refused = FALSE

At(c, pc) == caller[c].pc = pc
Goto(c, pc) == caller' = [caller EXCEPT ![c].pc = pc]

\* start() or stop() ends: stop() called from line 104 returns into start()
Return(c) ==
    caller' = [caller EXCEPT ![c] =
                 IF caller[c].ret = "start"
                 THEN Frame("st106", "caller", FALSE) ELSE Idle]

\* an exception leaves start()/stop() and whatever called it
Raise(c) == caller' = [caller EXCEPT ![c] = Idle] /\ raised' = TRUE

\* lines 29-36: the global that capture_mouse_position(purpose) assigns
CaptureSlot_ElseDest(purpose) == IF purpose = "SRC" THEN "src" ELSE "dest"
CaptureSlot(purpose) ==
    CASE purpose = "SRC" -> "src"
      [] purpose = "DES" -> "dest"
      [] OTHER -> "none"

\* lines 27-30 and 37: what the slot holds after the assignment from
\* pyautogui.position(); pos = None stands for position() raising, which
\* reaches the except at line 37 before any assignment is made
Captured_StoresFailure(old, pos) == pos
Captured(old, pos) == IF pos # None THEN pos ELSE old

\* lines 20-39: capture_mouse_position(purpose) with position() returning pos
\* (or raising, pos = None)
CaptureRead(c, purpose, pos) ==
    /\ At(c, "idle")
    /\ captured_src_position' =
         IF CaptureSlot(purpose) = "src"
         THEN Captured(captured_src_position, pos) ELSE captured_src_position
    /\ captured_dest_position' =
         IF CaptureSlot(purpose) = "dest"
         THEN Captured(captured_dest_position, pos) ELSE captured_dest_position
    /\ UNCHANGED <<serverVars, execVars, guiVars, stop_drag_loop_event, auto_drag_thread, task, caller,
                   raised, timedOut, cleanStop, stopCalled, refused>>

\* lines 20-39: capture_mouse_position(purpose); position() returns a point or raises
Capture(c, purpose) ==
    \E pos \in Points \cup {None} : CaptureRead(c, purpose, pos)

CaptureMousePosition(c) == \E purpose \in Purposes : Capture(c, purpose)

\* a thread calls start_auto_drag_loop()
CallStart(c) ==
    /\ At(c, "idle")
    /\ \E t \in TaskIds : task[t] = "unborn"
    /\ caller' = [caller EXCEPT ![c] = Frame("st96", "caller", FALSE)]
    /\ cleanStop' = FALSE
    /\ refused' = FALSE
    /\ UNCHANGED <<serverVars, execVars, guiVars, captured_src_position, captured_dest_position,
                   stop_drag_loop_event, auto_drag_thread, task,
                   raised, timedOut, stopCalled>>

\* a thread calls stop_auto_drag_loop()
CallStop(c) ==
    /\ At(c, "idle")
    /\ caller' = [caller EXCEPT ![c] = Frame("sp117a", "caller", FALSE)]
    /\ stopCalled' = TRUE
    /\ UNCHANGED <<serverVars, execVars, guiVars, captured_src_position, captured_dest_position,
                   stop_drag_loop_event, auto_drag_thread, task,
                   raised, timedOut, cleanStop, refused>>

\* lines 96-99
StartCheckEndpoints(c) ==
    /\ At(c, "st96")
    /\ IF EndpointUnset THEN Return(c) ELSE Goto(c, "st101a")
    /\ refused' = EndpointUnset
    /\ UNCHANGED <<serverVars, execVars, guiVars, captured_src_position, captured_dest_position,
                   stop_drag_loop_event, auto_drag_thread, task,
                   raised, timedOut, cleanStop, stopCalled>>

\* line 101, first operand: `auto_drag_thread and ...`
StartCheckThread(c) ==
    /\ At(c, "st101a")
    /\ IF ~ThreadSet THEN Goto(c, "st106") ELSE Goto(c, "st101b")
    /\ UNCHANGED <<serverVars, execVars, guiVars, captured_src_position, captured_dest_position,
                   stop_drag_loop_event, auto_drag_thread, task,
                   raised, timedOut, cleanStop, stopCalled, refused>>

\* line 101, second operand: the global is read again for .is_alive();
\* line 104 calls stop_auto_drag_loop()
StartCheckAlive(c) ==
    /\ At(c, "st101b")
    /\ IF auto_drag_thread = None
       THEN Raise(c)
       ELSE /\ IF IsAlive(auto_drag_thread)
               THEN caller' = [caller EXCEPT ![c] = Frame("sp117a", "start", FALSE)]
               ELSE Goto(c, "st106")
            /\ UNCHANGED raised
    /\ UNCHANGED <<serverVars, execVars, guiVars, captured_src_position, captured_dest_position,
                   stop_drag_loop_event, auto_drag_thread, task,
                   timedOut, cleanStop, stopCalled, refused>>

\* line 106: stop_drag_loop_event.clear()
StartClearEvent(c) ==
    /\ At(c, "st106")
    /\ stop_drag_loop_event' = FALSE
    /\ Goto(c, "st107")
    /\ UNCHANGED <<serverVars, execVars, guiVars, captured_src_position, captured_dest_position,
                   auto_drag_thread, task, raised, timedOut, cleanStop, stopCalled, refused>>

\* line 107: auto_drag_thread = threading.Thread(...)
StartCreateThread(c) ==
    /\ At(c, "st107")
    /\ \E t \in TaskIds :
         /\ task[t] = "unborn"
         /\ \A u \in TaskIds : u < t => task[u] # "unborn"
         /\ task' = [task EXCEPT ![t] = "created"]
         /\ auto_drag_thread' = t
    /\ Goto(c, "st108")
    /\ UNCHANGED <<serverVars, execVars, guiVars, captured_src_position, captured_dest_position,
                   stop_drag_loop_event, raised, timedOut, cleanStop, stopCalled, refused>>

\* line 108: auto_drag_thread.start(), on whatever the global now names
StartLaunch(c) ==
    /\ At(c, "st108")
    /\ IF auto_drag_thread # None /\ task[auto_drag_thread] = "created"
       THEN /\ task' = [task EXCEPT ![auto_drag_thread] = "loop"]
            /\ Return(c)
            /\ UNCHANGED raised
       ELSE \* AttributeError on None, RuntimeError on a thread already started
            /\ Raise(c)
            /\ UNCHANGED task
    /\ UNCHANGED <<serverVars, execVars, guiVars, captured_src_position, captured_dest_position,
                   stop_drag_loop_event, auto_drag_thread,
                   timedOut, cleanStop, stopCalled, refused>>

\* line 117, first operand: `auto_drag_thread and ...`; the else branch is line 128
StopCheckThread(c) ==
    /\ At(c, "sp117a")
    /\ IF ~ThreadSet THEN Return(c) ELSE Goto(c, "sp117b")
    /\ UNCHANGED <<serverVars, execVars, guiVars, captured_src_position, captured_dest_position,
                   stop_drag_loop_event, auto_drag_thread, task,
                   raised, timedOut, cleanStop, stopCalled, refused>>

\* line 117, second operand: the global is read again for .is_alive()
StopCheckAlive(c) ==
    /\ At(c, "sp117b")
    /\ IF auto_drag_thread = None
       THEN Raise(c)
       ELSE /\ IF IsAlive(auto_drag_thread) THEN Goto(c, "sp120") ELSE Return(c)
            /\ UNCHANGED raised
    /\ UNCHANGED <<serverVars, execVars, guiVars, captured_src_position, captured_dest_position,
                   stop_drag_loop_event, auto_drag_thread, task,
                   timedOut, cleanStop, stopCalled, refused>>

\* line 120: the flag after stop_drag_loop_event.set()
EventSet_Noop == FALSE
EventSet == TRUE

\* line 120: stop_drag_loop_event.set()
StopSetEvent(c) ==
    /\ At(c, "sp120")
    /\ stop_drag_loop_event' = EventSet
    /\ Goto(c, "sp121")
    /\ UNCHANGED <<serverVars, execVars, guiVars, captured_src_position, captured_dest_position,
                   auto_drag_thread, task, raised, timedOut, cleanStop, stopCalled, refused>>

\* line 121: auto_drag_thread.join(timeout=2.0) returns when the thread has
\* finished, or when 2 seconds have passed with the thread still alive
StopJoin(c) ==
    /\ At(c, "sp121")
    /\ IF auto_drag_thread = None \/ task[auto_drag_thread] = "created"
       THEN \* AttributeError on None, RuntimeError on a thread not yet started
            /\ Raise(c)
            /\ UNCHANGED timedOut
       ELSE /\ JoinReturns(auto_drag_thread)
            /\ Goto(c, "sp122")
            /\ timedOut' = (timedOut \/ IsAlive(auto_drag_thread))
            /\ UNCHANGED raised
    /\ UNCHANGED <<serverVars, execVars, guiVars, captured_src_position, captured_dest_position,
                   stop_drag_loop_event, auto_drag_thread, task,
                   cleanStop, stopCalled, refused>>

\* lines 122-125: `if auto_drag_thread.is_alive()` chooses the message
StopReport(c) ==
    /\ At(c, "sp122")
    /\ IF auto_drag_thread = None
       THEN Raise(c)
       ELSE /\ caller' = [caller EXCEPT ![c].pc = "sp126",
                                        ![c].clean = ~IsAlive(auto_drag_thread)]
            /\ UNCHANGED raised
    /\ UNCHANGED <<serverVars, execVars, guiVars, captured_src_position, captured_dest_position,
                   stop_drag_loop_event, auto_drag_thread, task,
                   timedOut, cleanStop, stopCalled, refused>>

\* line 126: auto_drag_thread = None, and stop() returns
StopForget(c) ==
    /\ At(c, "sp126")
    /\ auto_drag_thread' = None
    /\ cleanStop' = IF caller[c].ret = "caller" THEN caller[c].clean ELSE cleanStop
    /\ Return(c)
    /\ UNCHANGED <<serverVars, execVars, guiVars, captured_src_position, captured_dest_position,
                   stop_drag_loop_event, task, raised, timedOut, stopCalled, refused>>

\* line 71 and, when the loop goes on, lines 72-78: `while not
\* stop_drag_loop_event.is_set()`, the defensive check, the entry into
\* _perform_single_drag (moveTo the source, mouseDown)
TaskLoopHead(t) ==
    /\ task[t] = "loop"
    /\ task' = [task EXCEPT ![t] =
                  IF stop_drag_loop_event THEN "finished"
                  ELSE IF EndpointUnset THEN "waiting"
                  ELSE "dragging"]
    /\ UNCHANGED <<serverVars, execVars, guiVars, captured_src_position, captured_dest_position,
                   stop_drag_loop_event, auto_drag_thread, caller,
                   raised, timedOut, cleanStop, stopCalled, refused>>

\* lines 53-57: moveTo the destination, mouseUp; _perform_single_drag returns
TaskDragDone(t) ==
    /\ task[t] = "dragging"
    /\ task' = [task EXCEPT ![t] = "after_drag"]
    /\ UNCHANGED <<serverVars, execVars, guiVars, captured_src_position, captured_dest_position,
                   stop_drag_loop_event, auto_drag_thread, caller,
                   raised, timedOut, cleanStop, stopCalled, refused>>

\* lines 81-84: `if stop_drag_loop_event.is_set(): break`, else the wait
AfterDragNext_NoCheck == "sleeping"
AfterDragNext == IF stop_drag_loop_event THEN "finished" ELSE "sleeping"

\* lines 81-84: the check after the drag, then the wait
TaskAfterDrag(t) ==
    /\ task[t] = "after_drag"
    /\ task' = [task EXCEPT ![t] = AfterDragNext]
    /\ UNCHANGED <<serverVars, execVars, guiVars, captured_src_position, captured_dest_position,
                   stop_drag_loop_event, auto_drag_thread, caller,
                   raised, timedOut, cleanStop, stopCalled, refused>>

\* time.sleep returns (line 75 or line 84) and the loop goes round
TaskWake(t) ==
    /\ task[t] \in {"waiting", "sleeping"}
    /\ task' = [task EXCEPT ![t] = "loop"]
    /\ UNCHANGED <<serverVars, execVars, guiVars, captured_src_position, captured_dest_position,
                   stop_drag_loop_event, auto_drag_thread, caller,
                   raised, timedOut, cleanStop, stopCalled, refused>>

DragNext ==
    \/ \E c \in DOMAIN caller : CaptureMousePosition(c)
    \/ \E c \in DOMAIN caller : CallStart(c)
    \/ \E c \in DOMAIN caller : CallStop(c)
    \/ \E c \in DOMAIN caller : StartCheckEndpoints(c)
    \/ \E c \in DOMAIN caller : StartCheckThread(c)
    \/ \E c \in DOMAIN caller : StartCheckAlive(c)
    \/ \E c \in DOMAIN caller : StartClearEvent(c)
    \/ \E c \in DOMAIN caller : StartCreateThread(c)
    \/ \E c \in DOMAIN caller : StartLaunch(c)
    \/ \E c \in DOMAIN caller : StopCheckThread(c)
    \/ \E c \in DOMAIN caller : StopCheckAlive(c)
    \/ \E c \in DOMAIN caller : StopSetEvent(c)
    \/ \E c \in DOMAIN caller : StopJoin(c)
    \/ \E c \in DOMAIN caller : StopReport(c)
    \/ \E c \in DOMAIN caller : StopForget(c)
    \/ \E t \in TaskIds : TaskLoopHead(t)
    \/ \E t \in TaskIds : TaskDragDone(t)
    \/ \E t \in TaskIds : TaskAfterDrag(t)
    \/ \E t \in TaskIds : TaskWake(t)

(***************************************************************************)
(* input_simulator.py                                                      *)
(***************************************************************************)

\* modifiers lists of the actions tried
ModifierLists == {<<>>, <<"shift">>, <<"ctrl", "shift">>}

\* pressType: the key absent (read as {} by lines 25 and 81), an object with
\* type tap, hold or something else, or a value that is not an object
PressTypes == {"absent", "tap", "hold", "other", "nondict"}

\* durationMs: absent (None at lines 27 and 83), a number, or a JSON string
Durations ==
    {[kind |-> "missing", ms |-> 0], [kind |-> "nonnumber", ms |-> 0]}
    \cup {[kind |-> "number", ms |-> n] : n \in {-1, 0, 1500}}

\* clicks: absent (1 by line 140), a number, or a JSON string
ClickCounts ==
    {[kind |-> "missing", n |-> 1], [kind |-> "nonnumber", n |-> 0]}
    \cup {[kind |-> "number", n |-> n] : n \in {-2, 0, 3}}

NoDuration == [kind |-> "missing", ms |-> 0]
NoClicks == [kind |-> "missing", n |-> 1]

KeyActions ==
    {[type |-> "key_event", key |-> k, button |-> "absent",
      direction |-> "absent", clicks |-> NoClicks, modifiers |-> m,
      pressType |-> p, durationMs |-> d] :
        k \in {"a", "absent"}, m \in ModifierLists, p \in PressTypes,
        d \in Durations}

MouseActions ==
    {[type |-> "mouse_event", key |-> "absent", button |-> b,
      direction |-> "absent", clicks |-> NoClicks, modifiers |-> m,
      pressType |-> p, durationMs |-> d] :
        b \in {"LEFT", "BOGUS"}, m \in ModifierLists, p \in PressTypes,
        d \in Durations}

ScrollActions ==
    {[type |-> "mouse_scroll", key |-> "absent", button |-> "absent",
      direction |-> dir, clicks |-> c, modifiers |-> m,
      pressType |-> "absent", durationMs |-> NoDuration] :
        dir \in {"UP", "DOWN", "SIDEWAYS"}, c \in ClickCounts,
        m \in ModifierLists}

Actions == KeyActions \cup MouseActions \cup ScrollActions

NoAction ==
    [type |-> "none", key |-> "absent", button |-> "absent",
     direction |-> "absent", clicks |-> NoClicks, modifiers |-> <<>>,
     pressType |-> "absent", durationMs |-> NoDuration]

\* lines 85-86: button_map.get(button_str)
ButtonMap_Passthrough(b) == IF b = "absent" THEN "None" ELSE b
ButtonMap(b) ==
    CASE b = "LEFT" -> "left"
      [] b = "RIGHT" -> "right"
      [] b = "MIDDLE" -> "middle"
      [] OTHER -> "None"

\* line 142: scroll_amount, as [exc, n]; negating a string is a TypeError,
\* and a string compares unequal to 0 at line 144 (n = 1 stands for it)
ScrollAmount(data) ==
    CASE data.direction = "UP" ->
            [exc |-> FALSE,
             n |-> IF data.clicks.kind = "nonnumber" THEN 1 ELSE data.clicks.n]
      [] data.direction = "DOWN" ->
            IF data.clicks.kind = "nonnumber"
            THEN [exc |-> TRUE, n |-> 0]
            ELSE [exc |-> FALSE, n |-> 0 - data.clicks.n]
      [] OTHER -> [exc |-> FALSE, n |-> 0]

\* lines 26 and 82: press_type_data.get('type', 'tap')
PressTypeOf(data) ==
    IF data.pressType = "absent" THEN "tap" ELSE data.pressType

\* lines 52 and 111: duration_sec <= 0, where duration_sec is duration_ms
\* divided by the positive constant 1000.0
NonPositive_Strict(ms) == ms < 0
NonPositive(ms) == ms <= 0

\* lines 46-65 and 105-124: the branch the primary action takes
PressBranch(data) ==
    CASE PressTypeOf(data) = "tap" -> "tap"
      [] PressTypeOf(data) = "hold" /\ data.durationMs.kind # "missing" ->
            IF data.durationMs.kind = "nonnumber" THEN "TypeError"
            ELSE IF NonPositive(data.durationMs.ms) THEN "fallback"
            ELSE "hold"
      [] OTHER -> "fallback"

\* the key or the mapped button the primary action acts on
Target(data) ==
    IF data.type = "key_event" THEN data.key ELSE ButtonMap(data.button)

\* lines 71, 130, 169: reversed(modifiers)
Reversed_Same(s) == s
Reversed(s) == [i \in 1..Len(s) |-> s[Len(s) + 1 - i]]

Call(fn, arg, n, ok) == [fn |-> fn, arg |-> arg, n |-> n, ok |-> ok]

\* the pydirectinput functions that press, and those that release
Presses == {"keyDown", "mouseDown"}
Releases == {"keyUp", "mouseUp"}

\* a call that has returned normally changes what is down
HeldAfter(held, c) ==
    IF ~c.ok THEN held
    ELSE IF c.fn \in Presses THEN held \cup {c.arg}
    ELSE IF c.fn \in Releases THEN held \ {c.arg}
    ELSE held

ExecIdle ==
    /\ xdata = NoAction
    /\ xts = "None"
    /\ xpc = "idle"
    /\ xi = 0
    /\ xcalls = <<>>
    /\ xheld = {}

\* the executor has just been called with some action and some timestamp
ExecInit ==
    /\ xdata \in Actions
    /\ xts \in {"None", "set"}
    /\ xpc = "entry"
    /\ xi = 0
    /\ xcalls = <<>>
    /\ xheld = {}

MakeCall(c) ==
    /\ xcalls' = Append(xcalls, c)
    /\ xheld' = HeldAfter(xheld, c)

\* the finally clause is entered: with no modifier the function returns
ToFinally ==
    /\ xpc' = IF Len(xdata.modifiers) = 0 THEN "returned" ELSE "mods_up"
    /\ xi' = 1

\* lines 41-44, 100-103, 156-159: the try block entered after the
\* modifier-down loop begins with the latency log
AfterModifiers_NoLog(data) ==
    IF data.type = "mouse_scroll" THEN "scroll" ELSE "primary"
AfterModifiers(data) == "latency"

\* lines 23-32, 80-91, 139-147: read the fields, return early on a missing
\* key, an unknown button or a zero scroll amount
ExecValidate ==
    /\ xpc = "entry"
    /\ LET fails ==
               IF xdata.type = "mouse_scroll" THEN ScrollAmount(xdata).exc
               ELSE xdata.pressType = "nondict"
           rejects ==
               CASE xdata.type = "key_event" -> xdata.key = "absent"
                 [] xdata.type = "mouse_event" -> ButtonMap(xdata.button) = "None"
                 [] OTHER -> ScrollAmount(xdata).n = 0
       IN  xpc' = IF fails THEN "raised"
                  ELSE IF rejects THEN "returned"
                  ELSE IF Len(xdata.modifiers) = 0 THEN AfterModifiers(xdata)
                  ELSE "mods_down"
    /\ xi' = 1
    /\ UNCHANGED <<serverVars, dragVars, guiVars, xdata, xts, xcalls, xheld>>

\* lines 35-40, 94-99, 150-155: one turn of the modifier-down loop
ModifierDown(ok) ==
    /\ xpc = "mods_down"
    /\ MakeCall(Call("keyDown", xdata.modifiers[xi], 0, ok))
    /\ xi' = xi + 1
    /\ xpc' = IF xi = Len(xdata.modifiers) THEN AfterModifiers(xdata) ELSE "mods_down"
    /\ UNCHANGED <<serverVars, dragVars, guiVars, xdata, xts>>

\* lines 43-44, 102-103, 158-159 with lines 11-19: the latency log line
LogLatency ==
    /\ xpc = "latency"
    /\ xcalls' = Append(xcalls,
                        Call("latency",
                             IF xts = "None" THEN "incomplete" ELSE "sample",
                             0, TRUE))
    /\ xpc' = IF xdata.type = "mouse_scroll" THEN "scroll" ELSE "primary"
    /\ UNCHANGED <<serverVars, dragVars, guiVars, xdata, xts, xi, xheld>>

\* lines 49, 55, 65 (press) and 108, 114, 124 (click)
PrimaryPress(ok) ==
    /\ xpc = "primary"
    /\ PressBranch(xdata) \in {"tap", "fallback"}
    /\ MakeCall(Call(IF xdata.type = "key_event" THEN "press" ELSE "click",
                     Target(xdata), 0, ok))
    /\ ToFinally
    /\ UNCHANGED <<serverVars, dragVars, guiVars, xdata, xts>>

\* lines 51 and 110: dividing a string by 1000.0 raises TypeError, which
\* lines 66-68 and 125-127 catch
PrimaryTypeError ==
    /\ xpc = "primary"
    /\ PressBranch(xdata) = "TypeError"
    /\ ToFinally
    /\ UNCHANGED <<serverVars, dragVars, guiVars, xdata, xts, xcalls, xheld>>

\* lines 59 and 118
HoldDown(ok) ==
    /\ xpc = "primary"
    /\ PressBranch(xdata) = "hold"
    /\ MakeCall(Call(IF xdata.type = "key_event" THEN "keyDown" ELSE "mouseDown",
                     Target(xdata), 0, ok))
    /\ IF ok THEN xpc' = "hold_sleep" /\ xi' = xi ELSE ToFinally
    /\ UNCHANGED <<serverVars, dragVars, guiVars, xdata, xts>>

\* lines 60 and 119
HoldSleep ==
    /\ xpc = "hold_sleep"
    /\ xcalls' = Append(xcalls, Call("sleep", "duration", xdata.durationMs.ms, TRUE))
    /\ xpc' = "hold_up"
    /\ UNCHANGED <<serverVars, dragVars, guiVars, xdata, xts, xi, xheld>>

\* lines 61 and 120
HoldUp(ok) ==
    /\ xpc = "hold_up"
    /\ MakeCall(Call(IF xdata.type = "key_event" THEN "keyUp" ELSE "mouseUp",
                     Target(xdata), 0, ok))
    /\ ToFinally
    /\ UNCHANGED <<serverVars, dragVars, guiVars, xdata, xts>>

\* line 163
Scroll(ok) ==
    /\ xpc = "scroll"
    /\ MakeCall(Call("scroll", "amount", ScrollAmount(xdata).n, ok))
    /\ ToFinally
    /\ UNCHANGED <<serverVars, dragVars, guiVars, xdata, xts>>

\* lines 71-76, 130-135, 169-174: one turn of the modifier-up loop
ModifierUp(ok) ==
    /\ xpc = "mods_up"
    /\ MakeCall(Call("keyUp", Reversed(xdata.modifiers)[xi], 0, ok))
    /\ xi' = xi + 1
    /\ xpc' = IF xi = Len(xdata.modifiers) THEN "returned" ELSE "mods_up"
    /\ UNCHANGED <<serverVars, dragVars, guiVars, xdata, xts>>

ExecNext ==
    \/ ExecValidate
    \/ \E ok \in BOOLEAN : ModifierDown(ok)
    \/ LogLatency
    \/ \E ok \in BOOLEAN : PrimaryPress(ok)
    \/ PrimaryTypeError
    \/ \E ok \in BOOLEAN : HoldDown(ok)
    \/ HoldSleep
    \/ \E ok \in BOOLEAN : HoldUp(ok)
    \/ \E ok \in BOOLEAN : Scroll(ok)
    \/ \E ok \in BOOLEAN : ModifierUp(ok)

(***************************************************************************)
(* server_gui.py, system_tray_handler.py                                   *)
(***************************************************************************)
StopIds == 1..MaxStops

\* `server_control.server_thread and server_control.server_thread.is_alive()`
\* (lines 273, 348, 356, 367)
ServerThreadAlive == server_thread = "alive"

\* `self.server_stop_thread and self.server_stop_thread.is_alive()`
\* (lines 277, 344, 368)
StopThreadAlive ==
    /\ server_stop_thread # 0
    /\ stopper[server_stop_thread].pc \in {"started", "stop_server", "cleanup"}

\* the stop threads that are inside server_control.stop_server()
InStopServer == {t \in StopIds : stopper[t].pc \in {"stop_server", "cleanup"}}

GuiIdle ==
    /\ server_thread = "None"
    /\ stop_requested = FALSE
    /\ server_stop_thread = 0
    /\ stopper = [t \in StopIds |-> [pc |-> "unborn", then |-> "update"]]
    /\ tk_queue = <<>>
    /\ start_stop_button = "normal"
    /\ controls_state = "normal"
    /\ startDuringStop = FALSE

\* lines 77-93: the constructor has started the server (autostart) or not
GuiInit ==
    /\ server_thread \in {"None", "alive"}
    /\ stop_requested = FALSE
    /\ server_stop_thread = 0
    /\ stopper = [t \in StopIds |-> [pc |-> "unborn", then |-> "update"]]
    /\ tk_queue = <<>>
    /\ start_stop_button = "normal"
    /\ controls_state = IF server_thread = "alive" THEN "disabled" ELSE "normal"
    /\ startDuringStop = FALSE

\* lines 387-394: _update_gui_for_server_state(is_running)
UpdateGuiForServerState(is_running) ==
    /\ start_stop_button' = "normal"
    /\ controls_state' = IF is_running THEN "disabled" ELSE "normal"

\* lines 374-375 and 281-282: a stop thread is created and started
LaunchStopThread(then) ==
    \E t \in StopIds :
       /\ stopper[t].pc = "unborn"
       /\ \A u \in StopIds : u < t => stopper[u].pc # "unborn"
       /\ stopper' = [stopper EXCEPT ![t] = [pc |-> "started", then |-> then]]
       /\ server_stop_thread' = t

\* line 360: server_control.start_server(...) is called and returns success
StartServer(success) ==
    /\ server_thread' = IF success THEN "alive" ELSE server_thread
    /\ stop_requested' = IF success THEN FALSE ELSE stop_requested
    /\ startDuringStop' = (startDuringStop \/ InStopServer # {})

\* lines 353-378: _toggle_server_state(start_server)
ToggleServerState(start_server) ==
    IF start_server
    THEN IF ~ServerThreadAlive
         THEN /\ \E success \in BOOLEAN :
                   StartServer(success) /\ UpdateGuiForServerState(success)
              /\ UNCHANGED <<server_stop_thread, stopper>>
         ELSE UNCHANGED <<server_thread, stop_requested, server_stop_thread, stopper,
                          start_stop_button, controls_state, startDuringStop>>
    ELSE IF ServerThreadAlive
         THEN IF StopThreadAlive
              THEN UNCHANGED <<server_thread, stop_requested, server_stop_thread,
                               stopper, start_stop_button, controls_state,
                               startDuringStop>>
              ELSE /\ start_stop_button' = "disabled"
                   /\ LaunchStopThread("update")
                   /\ UNCHANGED <<server_thread, stop_requested, controls_state,
                                  startDuringStop>>
         ELSE /\ UpdateGuiForServerState(FALSE)
              /\ UNCHANGED <<server_thread, stop_requested, server_stop_thread,
                             stopper, startDuringStop>>

\* a handler may create a stop thread only while one is left to create
CanLaunch == \E t \in StopIds : stopper[t].pc = "unborn"

\* lines 342-350: _toggle_server_state_button_click, the button being enabled
ToggleServerStateButtonClick ==
    /\ start_stop_button = "normal"
    /\ CanLaunch
    /\ IF StopThreadAlive
       THEN UNCHANGED <<server_thread, stop_requested, server_stop_thread, stopper,
                        start_stop_button, controls_state, startDuringStop>>
       ELSE ToggleServerState(~ServerThreadAlive)
    /\ UNCHANGED <<serverVars, dragVars, execVars, tk_queue>>

\* lines 237-283: Apply & Restart or the mDNS checkbox, the controls being
\* enabled: _restart_server_with_new_config
RestartServerWithNewConfig ==
    /\ controls_state = "normal"
    /\ CanLaunch
    /\ IF ServerThreadAlive
       THEN /\ start_stop_button' = "disabled"
            /\ IF StopThreadAlive
               THEN UNCHANGED <<server_stop_thread, stopper>>
               ELSE LaunchStopThread("restart")
            /\ UNCHANGED <<server_thread, stop_requested, controls_state,
                           startDuringStop>>
       ELSE ToggleServerState(TRUE)
    /\ UNCHANGED <<serverVars, dragVars, execVars, tk_queue>>

\* system_tray_handler.py lines 41-58: the tray thread posts the callback
TrayMenu(item) ==
    /\ Len(tk_queue) < MaxQueue
    /\ tk_queue' = Append(tk_queue, item)
    /\ UNCHANGED <<serverVars, dragVars, execVars, server_thread, stop_requested,
                   server_stop_thread, stopper, start_stop_button, controls_state,
                   startDuringStop>>

OnStartServer == TrayMenu("toggle_start")

OnStopServer == TrayMenu("toggle_stop")

\* the Tk main loop runs the oldest pending callback
RunCallback ==
    /\ tk_queue # <<>>
    /\ CanLaunch
    /\ tk_queue' = Tail(tk_queue)
    /\ CASE Head(tk_queue) = "toggle_start" -> ToggleServerState(TRUE)
         [] Head(tk_queue) = "toggle_stop" -> ToggleServerState(FALSE)
         [] Head(tk_queue) = "actual_restart" -> ToggleServerState(TRUE)
         [] OTHER ->
              /\ UpdateGuiForServerState(FALSE)
              /\ UNCHANGED <<server_thread, stop_requested, server_stop_thread,
                             stopper, startDuringStop>>
    /\ UNCHANGED <<serverVars, dragVars, execVars>>

\* lines 287 and 383: the stop thread calls server_control.stop_server(),
\* which tells the listener to end
StopServerCall(t) ==
    /\ stopper[t].pc = "started"
    /\ stopper' = [stopper EXCEPT ![t].pc = "stop_server"]
    /\ stop_requested' = TRUE
    /\ UNCHANGED <<serverVars, dragVars, execVars, server_thread, server_stop_thread,
                   tk_queue, start_stop_button, controls_state, startDuringStop>>

\* the listener thread, told to stop, ends
ListenerExits ==
    /\ server_thread = "alive"
    /\ stop_requested
    /\ server_thread' = "dead"
    /\ UNCHANGED <<serverVars, dragVars, execVars, stop_requested, server_stop_thread,
                   stopper, tk_queue, start_stop_button, controls_state,
                   startDuringStop>>

\* inside stop_server(): the wait for the listener is over (it has ended, or
\* the wait gave up); the rest of the shutdown follows
StopServerJoined(t) ==
    /\ stopper[t].pc = "stop_server"
    /\ stopper' = [stopper EXCEPT ![t].pc = "cleanup"]
    /\ UNCHANGED <<serverVars, dragVars, execVars, server_thread, stop_requested,
                   server_stop_thread, tk_queue, start_stop_button, controls_state,
                   startDuringStop>>

\* lines 288 and 384: stop_server() has returned; the thread posts its
\* callback and ends
StopServerReturns(t) ==
    /\ stopper[t].pc = "cleanup"
    /\ stopper' = [stopper EXCEPT ![t].pc = "finished"]
    /\ tk_queue' = Append(tk_queue,
                          IF stopper[t].then = "restart"
                          THEN "actual_restart" ELSE "update_gui")
    /\ UNCHANGED <<serverVars, dragVars, execVars, server_thread, stop_requested,
                   server_stop_thread, start_stop_button, controls_state,
                   startDuringStop>>

GuiNext ==
    \/ ToggleServerStateButtonClick
    \/ RestartServerWithNewConfig
    \/ OnStartServer
    \/ OnStopServer
    \/ RunCallback
    \/ ListenerExits
    \/ \E t \in StopIds : StopServerCall(t)
    \/ \E t \in StopIds : StopServerJoined(t)
    \/ \E t \in StopIds : StopServerReturns(t)

(***************************************************************************)
(* Specifications.                                                         *)
(***************************************************************************)
\* The whole program: the receive loop, and two threads calling the controller.
Init == ServerInit /\ PlatformAny /\ DragInit({1, 2}) /\ ExecInit /\ GuiInit

Next == ServerNext \/ DragNext \/ ExecNext \/ GuiNext

Spec == Init /\ [][Next]_vars

\* The receive loop of server.py alone (it calls nothing in auto_drag_handler).
InitServer == ServerInit /\ PlatformAny /\ DragInit({}) /\ ExecIdle /\ GuiIdle

SpecServer == InitServer /\ [][ServerNext]_vars

\* A step of the thread that runs main(), the signal handler included: the
\* thread is runnable, so it is eventually scheduled.  Nothing is assumed of
\* the network (Receive) nor of whoever raises signals.
MainStep ==
    \/ \E ok \in BOOLEAN : RegisterMdns(ok)
    \/ \E ok \in BOOLEAN : Bind(ok)
    \/ DecodeFails \/ Dispatch \/ SendPong
    \/ MacroNoExecutor \/ ExecutorCall \/ ExecutorRaises \/ ExecutorHolds
    \/ ExecutorReturns \/ MacroFinally \/ MacroAck2
    \/ HandleShutdown \/ FinallyClose \/ FinallyUnregister

SpecServerFair == SpecServer /\ WF_vars(MainStep)

\* the receive loop, and next to it a thread that captures endpoints
InitServerCapture == ServerInit /\ PlatformPosix /\ DragInit({1}) /\ ExecIdle /\ GuiIdle

NextServerCapture ==
    \/ ServerNext
    \/ \E c \in DOMAIN caller : CaptureMousePosition(c)

SpecServerCapture == InitServerCapture /\ [][NextServerCapture]_vars

\* The controller called by one thread: its calls come one after the other.
InitDrag == ServerInit /\ PlatformPosix /\ DragInit({1}) /\ ExecIdle /\ GuiIdle

SpecDrag == InitDrag /\ [][DragNext]_vars

\* A step of calling thread c inside start() or stop(): the thread is
\* runnable, so it is eventually scheduled.  Nothing is assumed of the drag
\* tasks, which may sit in an input call for any length of time.
InCallStep(c) ==
    \/ StartCheckEndpoints(c) \/ StartCheckThread(c) \/ StartCheckAlive(c)
    \/ StartClearEvent(c) \/ StartCreateThread(c) \/ StartLaunch(c)
    \/ StopCheckThread(c) \/ StopCheckAlive(c) \/ StopSetEvent(c)
    \/ StopJoin(c) \/ StopReport(c) \/ StopForget(c)

SpecDragFair == SpecDrag /\ WF_vars(InCallStep(1))

\* A step of drag-task thread t.
TaskStep(t) ==
    TaskLoopHead(t) \/ TaskDragDone(t) \/ TaskAfterDrag(t) \/ TaskWake(t)

\* The calling thread and every drag-task thread are eventually scheduled:
\* the input calls and the sleeps of a drag cycle (0.05 s, 0.1 s, 1 s) all
\* return.
SpecDragTaskFair ==
    SpecDrag /\ WF_vars(InCallStep(1)) /\ \A t \in TaskIds : WF_vars(TaskStep(t))

\* The controller called by two threads at once.
InitDragConc == ServerInit /\ PlatformPosix /\ DragInit({1, 2}) /\ ExecIdle /\ GuiIdle

SpecDragConc == InitDragConc /\ [][DragNext]_vars

\* The GUI's handlers, the tray's callbacks and the stop threads.
InitGui == ServerInit /\ PlatformPosix /\ DragInit({}) /\ ExecIdle /\ GuiInit

SpecGui == InitGui /\ [][GuiNext]_vars

\* one call of an executor function, on any action and timestamp
InitExec == ServerInit /\ PlatformPosix /\ DragInit({}) /\ ExecInit /\ GuiIdle

SpecExec == InitExec /\ [][ExecNext]_vars

(***************************************************************************)
(* Properties of the receive loop (checked under SpecServer).              *)
(***************************************************************************)
IsMacro == packet.enc = "ok" /\ packet.type = PACKET_TYPE_MACRO_COMMAND
IsPing == packet.enc = "ok" /\ packet.type = PACKET_TYPE_HEALTH_CHECK_PING
CarriesId == packet.id # "absent"

\* the iteration for `packet` is over and the loop is back at recvfrom
Handled == mainPc = "recvfrom" /\ packet.enc # "none"

Sends(k) == {i \in DOMAIN ev : ev[i].k = k}
ExecutorStarts == Sends("exec_start")

\* C1: for a MACRO_COMMAND that carries a packetId (here one the code takes
\* as present), the MACRO_ACK echoing the packetId is sent before the executor
\* invocation for the packet begins, and when the packet is done a MACRO_ACK
\* has been attempted and at most one has gone out.
C1_AckBeforeExecutor ==
    (IsMacro /\ packet.id \in {"int7", "str42"}) =>
        /\ \A i \in ExecutorStarts :
             \E j \in Sends("ack") : j < i /\ ev[j].id = packet.id
        /\ Handled =>
             /\ Sends("ack") # {}
             /\ Cardinality({i \in Sends("ack") : ev[i].ok}) <= 1

\* C4: a MACRO_COMMAND with no packetId causes no MACRO_ACK and no executor
\* invocation, whatever its payload.
C4_NoIdNoAckNoExecutor ==
    (IsMacro /\ ~CarriesId) => (Sends("ack") = {} /\ ExecutorStarts = {})

\* C5: for a HEALTH_CHECK_PING that carries a packetId, whatever string or
\* number it is, exactly one HEALTH_CHECK_PONG is sent and it echoes the
\* packetId.
C5_PongForEveryId ==
    (Handled /\ IsPing /\ CarriesId) =>
        /\ Cardinality(Sends("pong")) = 1
        /\ \A i \in Sends("pong") : ev[i].id = packet.id

\* C6: while an executor invocation is blocked in a Hold, the receive loop can
\* take the next datagram.
C6_ReceiveDuringHold ==
    (mainPc = "holding" /\ received < MaxPackets) => ENABLED Receive

\* C7: a datagram that is not UTF-8 or not JSON never ends the receive loop:
\* the step that fails to decode it leads back to recvfrom with nothing sent,
\* and a well-formed packet taken after malformed ones is handled by its type
\* (a PING with a packetId the code accepts gets its one PONG, a MACRO_COMMAND
\* with such a packetId gets a MACRO_ACK).
C7_MalformedKeepsLoop ==
    /\ [][(mainPc = "decode" /\ packet.enc \in {"badutf8", "badjson", "nondict"}
              /\ mainPc' # mainPc /\ ~signalled')
            => (mainPc' = "recvfrom" /\ ev' = <<>>)]_vars
    /\ [](malformed > 0 /\ Handled /\ packet.id \in {"int7", "str42"} =>
            /\ IsPing => Cardinality(Sends("pong")) = 1
            /\ IsMacro => Sends("ack") # {})

\* C7's case: malformed datagrams came first, then a PING that was answered
C7_Witness ==
    /\ malformed > 0
    /\ Handled /\ IsPing
    /\ \E i \in Sends("pong") : ev[i].ok

\* C9: for a MACRO_COMMAND that carries a packetId a MACRO_ACK is attempted
\* whatever the payload, and with the payload missing no executor work is done.
C9_AckWhateverPayload ==
    (Handled /\ IsMacro /\ CarriesId) =>
        /\ Sends("ack") # {}
        /\ packet.payload = "missing" => ExecutorStarts = {}

\* C16: a reply is sent at most once per received packet: when the packet is
\* done, at most one PONG and at most one MACRO_ACK send has been attempted
\* for it, a failed send included.
C16_ReplyAttemptedOnce ==
    Handled =>
        /\ Cardinality(Sends("pong")) <= 1
        /\ Cardinality(Sends("ack")) <= 1

\* C17: a MACRO_COMMAND that carries a packetId and whose payload decodes to
\* an action of a known subtype has, when the packet is done, caused exactly
\* one executor invocation; for a well-formed tap or hold that invocation has
\* returned exactly once.
C17_OneExecutorInvocation ==
    (Handled /\ IsMacro /\ CarriesId /\ packet.payload \in {"tap", "hold", "badshape"}) =>
        /\ Cardinality(ExecutorStarts) = 1
        /\ packet.payload \in {"tap", "hold"} => Cardinality(Sends("exec_end")) = 1

\* C17's case: a tap with a packetId has been handled after an earlier packet
C17_Witness ==
    /\ Handled /\ IsMacro
    /\ packet.id = "str42"
    /\ packet.payload = "tap"
    /\ received = 2
    /\ Cardinality(Sends("exec_end")) = 1

\* C20: when binding the UDP socket fails, main() ends with the error handed
\* to its caller (it does not return normally), bind is not tried again and
\* the receive loop has taken no datagram.
C20_BindFailureReported ==
    (bind_error /\ mainPc = "terminated") =>
        /\ received = 0
        /\ mainResult = "raised"

IsDragCommand(cmd) ==
    /\ packet.enc = "ok"
    /\ packet.type = "AUTO_DRAG_LOOP_COMMAND"
    /\ packet.payload = cmd

IsCapture(purpose) ==
    /\ packet.enc = "ok"
    /\ packet.type = "CAPTURE_MOUSE_POSITION"
    /\ packet.payload = purpose

\* C18: when an AUTO_DRAG_LOOP_COMMAND with command START (STOP) has been
\* handled, with or without a packetId, the iteration has made exactly one
\* call of the controller's start() (stop()) and has sent no reply.
C18_DragCommandCallsController ==
    /\ (Handled /\ IsDragCommand("START")) =>
          /\ Cardinality(Sends("start")) = 1
          /\ Sends("pong") = {} /\ Sends("ack") = {}
    /\ (Handled /\ IsDragCommand("STOP")) =>
          /\ Cardinality(Sends("stop")) = 1
          /\ Sends("pong") = {} /\ Sends("ack") = {}

\* C19: when a CAPTURE_MOUSE_POSITION with purpose SRC (DES) has been handled
\* and the loop is ready for the next datagram, the source (destination)
\* endpoint is set, and no reply was sent.
C19_CaptureSetsEndpoint ==
    /\ (Handled /\ IsCapture("SRC")) =>
          /\ captured_src_position # None
          /\ Sends("pong") = {} /\ Sends("ack") = {}
    /\ (Handled /\ IsCapture("DES")) =>
          /\ captured_dest_position # None
          /\ Sends("pong") = {} /\ Sends("ack") = {}

(***************************************************************************)
(* Properties of the drag-loop controller (SpecDrag, SpecDragConc).        *)
(***************************************************************************)
AtMostOneLive == Cardinality(LiveTasks) <= 1

SomeEndpointUnset ==
    captured_src_position = None \/ captured_dest_position = None

\* a drag-task thread performs part of a drag cycle: it enters
\* _perform_single_drag (move, button down) or completes it (move, button up)
DragStep ==
    \E t \in TaskIds :
       \/ task[t] = "loop" /\ task'[t] = "dragging"
       \/ task[t] = "dragging" /\ task'[t] = "after_drag"

\* C2: with calls made one after the other and no stop() made by the caller
\* (start() after start()), at most one drag task is alive.
C2_StartTwiceOneTask == ~stopCalled => AtMostOneLive

\* C3: with capture(), start() and stop() called from two threads at once, at
\* most one drag task is alive at any instant (stated for the runs in which no
\* join timed out, so that only the interleaving of the calls is in question).
C3_ConcurrentCallsOneTask == ~timedOut => AtMostOneLive

\* C8: after stop() has returned without its join having timed out, no drag
\* cycle step is performed until start() is called again.
C8_NoDragAfterStop == [][cleanStop => ~DragStep]_vars

\* C10: start() called with an endpoint unset launches no task, leaves the
\* cancellation flag and the task handle as they were and returns; and while
\* an endpoint is unset the controller is Idle (no handle, no live task, flag
\* clear).
C10_StartRefusedWhenUnset ==
    /\ [][\A c \in DOMAIN caller :
            (At(c, "st96") /\ SomeEndpointUnset /\ caller'[c] # caller[c])
              => /\ caller'[c].pc = "idle"
                 /\ UNCHANGED <<stop_drag_loop_event, auto_drag_thread, task>>]_vars
    /\ [](SomeEndpointUnset =>
            /\ auto_drag_thread = None
            /\ LiveTasks = {}
            /\ ~stop_drag_loop_event)

\* C10's case: start() was called with the source set and the destination
\* unset, and has returned
C10_Witness ==
    /\ refused
    /\ captured_src_position # None /\ captured_dest_position = None
    /\ \A c \in DOMAIN caller : At(c, "idle")

InStop(c) ==
    caller[c].pc \in {"sp117a", "sp117b", "sp120", "sp121", "sp122", "sp126"}

\* C11: stop() always returns to its caller, whether or not the drag task
\* exits: a thread that is inside stop() eventually is outside it, with no
\* progress assumed of the task (the join gives up after its timeout).
C11_StopReturns == [](InStop(1) => <>(~InStop(1)))

\* C11's case: a stop() whose join timed out has returned, the task still alive
C11_Witness ==
    /\ timedOut /\ stopCalled
    /\ At(1, "idle")
    /\ auto_drag_thread = None
    /\ LiveTasks # {}

\* C12: stop() on an Idle controller (no live task) is a no-op: every step of
\* the call leaves the handle, the flag, the endpoints and the tasks as they
\* were, raises nothing, and the call returns without reaching the join.
C12_StopOnIdleNoOp ==
    [][\A c \in DOMAIN caller :
         (/\ caller[c].pc \in {"sp117a", "sp117b"}
          /\ caller[c].ret = "caller"
          /\ LiveTasks = {}
          /\ caller'[c] # caller[c])
         => /\ caller'[c].pc \in {"sp117b", "idle"}
            /\ UNCHANGED <<auto_drag_thread, stop_drag_loop_event, task, raised,
                           captured_src_position, captured_dest_position>>]_vars

\* C12's case: stop() was called on a controller that never ran a task, and
\* has returned
C12_Witness ==
    /\ stopCalled /\ ~raised
    /\ \A t \in TaskIds : task[t] = "unborn"
    /\ \A c \in DOMAIN caller : At(c, "idle")

\* C31: each endpoint starts unset; once set it is never unset again by any
\* step of capture(), start(), stop() or a drag task, and it changes only by
\* a capture of its own purpose.
C31_EndpointsNeverUnset ==
    /\ captured_src_position = None /\ captured_dest_position = None
    /\ [][/\ captured_src_position # None => captured_src_position' # None
          /\ captured_dest_position # None => captured_dest_position' # None
          /\ captured_src_position' # captured_src_position
               => \E c \in DOMAIN caller : Capture(c, "SRC")
          /\ captured_dest_position' # captured_dest_position
               => \E c \in DOMAIN caller : Capture(c, "DES")]_vars

\* C31's case: both endpoints were captured, the source a second time, and a
\* start() and a stop() have run to their end since
C31_Witness ==
    /\ captured_src_position = 2 /\ captured_dest_position = 1
    /\ stopCalled /\ cleanStop
    /\ task[1] = "finished"
    /\ At(1, "idle")

C33_StopEventuallyIdle ==
    \A t \in TaskIds :
       (/\ At(1, "sp117a") /\ caller[1].ret = "caller"
        /\ auto_drag_thread = t /\ IsAlive(t))
       ~> \/ /\ task[t] = "finished"
             /\ auto_drag_thread = None
             /\ At(1, "idle")
          \/ At(1, "st96")

\* C33's case: stop() has just been called while task 1 is in a drag cycle
C33_Witness ==
    /\ At(1, "sp117a") /\ caller[1].ret = "caller"
    /\ auto_drag_thread = 1 /\ task[1] = "dragging"
    /\ ~stop_drag_loop_event

\* C34: capture(purpose) with the pointer read returning pos (or failing)
\* stores pos in the source slot when purpose is SRC and the read worked, in
\* the destination slot when purpose is DES and the read worked, and changes
\* nothing else: not the other slot, not the handle, the flag or the tasks.
C34_CaptureWritesOwnSlot ==
    [][\A c \in DOMAIN caller : \A purpose \in Purposes : \A pos \in Points \cup {None} :
         CaptureRead(c, purpose, pos)
           => /\ captured_src_position' =
                   IF purpose = "SRC" /\ pos # None THEN pos ELSE captured_src_position
              /\ captured_dest_position' =
                   IF purpose = "DES" /\ pos # None THEN pos ELSE captured_dest_position
              /\ UNCHANGED <<auto_drag_thread, stop_drag_loop_event, task>>]_vars

\* C34's case: a capture of the source has acted on a fresh controller
C34_Witness ==
    /\ captured_src_position = 2 /\ captured_dest_position = None
    /\ auto_drag_thread = None /\ ~stop_drag_loop_event
    /\ \A t \in TaskIds : task[t] = "unborn"
    /\ ~refused /\ ~stopCalled

\* C35: a drag task that has been told to stop begins no further drag cycle
\* once a newer task instance has been created by start().  (With calls made
\* one after the other, a newer instance exists only after stop() has set the
\* flag for the older one.)
C35_OldTaskStaysCancelled ==
    [][\A t \in TaskIds :
         (\E u \in TaskIds : u > t /\ task[u] # "unborn")
           => ~(task[t] = "loop" /\ task'[t] = "dragging")]_vars

\* C36: whenever the task handle is unset, no drag-task thread is alive.
C36_NoHandleNoLiveTask == auto_drag_thread = None => LiveTasks = {}

\* C37: with start() and stop() called from two threads at once, no step made
\* inside stop() while the handle is unset (another call having cleared it)
\* ends the call in an exception.
C37_ConcurrentStopsReturn ==
    [][\A c \in DOMAIN caller :
         (InStop(c) /\ auto_drag_thread = None /\ caller'[c] # caller[c])
           => raised' = raised]_vars

\* C38: a live drag task never has an unset endpoint before it, and no task
\* is ever in the wait of the defensive branch (lines 72-76).
C38_DefensiveBranchUnreachable ==
    /\ LiveTasks # {} => ~SomeEndpointUnset
    /\ \A t \in TaskIds : task[t] # "waiting"

\* C38's case: a task has made its endpoint check, completed a drag cycle and
\* is in the wait between iterations
C38_Witness ==
    /\ task[1] = "sleeping"
    /\ ~stop_drag_loop_event
    /\ auto_drag_thread = 1

(***************************************************************************)
(* Properties of the action executor (SpecExec).                           *)
(***************************************************************************)

\* the input events among the calls made: name and argument of each call
\* to pydirectinput, in the order made
InputEvents ==
    LET IsInput(c) == c.fn \notin {"latency", "sleep"}
        made == SelectSeq(xcalls, IsInput)
    IN  [i \in 1..Len(made) |-> [fn |-> made[i].fn, arg |-> made[i].arg]]

ModifierDowns ==
    [i \in 1..Len(xdata.modifiers) |-> [fn |-> "keyDown", arg |-> xdata.modifiers[i]]]

ModifierUps ==
    [i \in 1..Len(xdata.modifiers) |->
        [fn |-> "keyUp", arg |-> xdata.modifiers[Len(xdata.modifiers) + 1 - i]]]

\* the function went past its early return
PastValidation == \E i \in 1..Len(xcalls) : xcalls[i].fn = "latency"

\* a call of the primary action raised, or the primary action raised before
\* any call
PrimaryFailed ==
    \/ PressBranch(xdata) = "TypeError"
    \/ \E i \in 1..Len(xcalls) :
          /\ ~xcalls[i].ok
          /\ xcalls[i].fn \in {"press", "click", "mouseDown", "mouseUp", "scroll"}

AllReleasesWorked ==
    \A i \in 1..Len(xcalls) : xcalls[i].fn = "keyUp" => xcalls[i].ok

\* C13: when an executor function returns, for a key, a pointer or a scroll
\* action and whether the primary action succeeded or raised, the input
\* events it made are: keyDown of each modifier in list order, then the calls
\* of the primary action, then keyUp of each modifier in reverse order; no
\* modifier whose release call worked is down.  A call that returns early
\* or raises before the modifier loop has made no input event at all.
C13_ModifiersBracketPrimary ==
    xpc \in {"returned", "raised"} =>
        LET n == Len(xdata.modifiers)
            e == InputEvents
        IN  IF ~PastValidation THEN e = <<>> /\ xheld = {}
            ELSE /\ Len(e) >= 2 * n
                 /\ SubSeq(e, 1, n) = ModifierDowns
                 /\ SubSeq(e, Len(e) - n + 1, Len(e)) = ModifierUps
                 /\ \A i \in (n + 1)..(Len(e) - n) :
                       e[i].arg \in {Target(xdata), "amount"}
                 /\ AllReleasesWorked =>
                       \A i \in 1..n : xdata.modifiers[i] \notin xheld

\* C13's case: two modifiers, a primary action that raised, the function
\* returned and nothing is down
C13_Witness ==
    /\ xpc = "returned"
    /\ Len(xdata.modifiers) = 2
    /\ PrimaryFailed
    /\ Len(InputEvents) >= 5
    /\ xheld = {}

IsHoldOfPress ==
    /\ xdata.type \in {"key_event", "mouse_event"}
    /\ PressTypeOf(xdata) = "hold"

\* what a tap of the same key or button with the same modifiers produces
TapEvents ==
    ModifierDowns
    \o <<[fn |-> IF xdata.type = "key_event" THEN "press" ELSE "click",
          arg |-> Target(xdata)]>>
    \o ModifierUps

\* C14: a key or pointer action with pressType hold and a durationMs that is
\* a number <= 0 makes the very input events a tap of the same action makes:
\* both make the modifier downs, one press (or click) and the modifier ups.
C14_NonPositiveHoldIsTap ==
    (/\ xpc = "returned"
     /\ PastValidation
     /\ xdata.type \in {"key_event", "mouse_event"}
     /\ \/ PressTypeOf(xdata) = "tap"
        \/ /\ IsHoldOfPress
           /\ xdata.durationMs.kind = "number"
           /\ xdata.durationMs.ms <= 0)
    => InputEvents = TapEvents

\* C14's case: a hold of 0 ms with a modifier has run to its return
C14_Witness ==
    /\ xpc = "returned"
    /\ IsHoldOfPress
    /\ xdata.durationMs = [kind |-> "number", ms |-> 0]
    /\ Len(xdata.modifiers) = 1
    /\ Len(InputEvents) = 3

\* C15: a hold whose durationMs is missing or invalid (not a number, or a
\* number <= 0) is performed as a tap: when the function returns it has made
\* exactly one press (or click) and no down/up pair of the key or button.
C15_InvalidHoldTapsOnce ==
    (/\ xpc = "returned"
     /\ PastValidation
     /\ IsHoldOfPress
     /\ \/ xdata.durationMs.kind \in {"missing", "nonnumber"}
        \/ xdata.durationMs.ms <= 0)
    => /\ Cardinality({i \in 1..Len(xcalls) : xcalls[i].fn \in {"press", "click"}}) = 1
       /\ \A i \in 1..Len(xcalls) : xcalls[i].fn \notin {"mouseDown", "mouseUp"}
       /\ \A i \in 1..Len(xcalls) :
             xcalls[i].fn \in {"keyDown", "keyUp"} => xcalls[i].arg # Target(xdata)

\* C25: a HEALTH_CHECK_PING without a packetId is ignored: the iteration
\* sends nothing, calls no executor, and goes straight back to recvfrom.
C25_PingWithoutIdIgnored ==
    (IsPing /\ ~CarriesId) =>
        /\ ev = <<>>
        /\ mainPc \notin {"pong", "macro_try", "executing", "holding",
                          "macro_finally", "macro_ack2"}

\* C25's case: a PING without packetId has been handled after another packet
C25_Witness ==
    /\ Handled /\ IsPing /\ ~CarriesId
    /\ received = 2
    /\ ev = <<>>

\* C26: a packet whose type is none of the packet types the server handles
\* produces no reply, no executor invocation and no controller call, and the
\* loop is back at recvfrom right after it (unless a signal ends main()).
C26_UnknownTypeIgnored ==
    (packet.enc = "ok"
       /\ packet.type \in {"UNKNOWN_TYPE", PACKET_TYPE_HEALTH_CHECK_PONG, "absent"}) =>
        /\ ev = <<>>
        /\ captured_src_position = None /\ captured_dest_position = None
        /\ LiveTasks = {}
        /\ mainPc \in {"decode", "recvfrom", "finally_close",
                       "finally_unregister", "terminated"}
        /\ mainPc \in {"finally_close", "finally_unregister", "terminated"}
              => signalled

\* C26's case: a packet of unknown type, with a packetId, has been handled
\* after another packet and the loop is ready for the next one
C26_Witness ==
    /\ Handled
    /\ packet.type = "UNKNOWN_TYPE" /\ packet.id = "str42"
    /\ received = 2 /\ received < MaxPackets
    /\ ev = <<>>
    /\ ENABLED Receive

\* C27: an executor failure is contained to its own packet: the exception
\* does not leave the payload's try (it reaches neither the handler of the
\* loop nor the one of main()), the iteration goes on to its ACK code and
\* back to recvfrom, and the next datagram can be taken.
C27_ExecutorFailureContained ==
    (IsMacro /\ Sends("exec_raise") # {}) =>
        /\ Sends("loop_error") = {}
        /\ ~signalled => mainPc \in {"macro_finally", "macro_ack2", "recvfrom"}
        /\ (Handled /\ ~sig_pending /\ received < MaxPackets) => ENABLED Receive

\* C27's case: the executor raised on the second packet, the packet was still
\* acknowledged, and the loop is ready for the next datagram
C27_Witness ==
    /\ Handled /\ IsMacro
    /\ Sends("exec_raise") # {}
    /\ \E i \in Sends("ack") : ev[i].ok
    /\ received = 2 /\ received < MaxPackets
    /\ ENABLED Receive

\* C28: whatever packet the receive loop processes, malformed and partial
\* ones included, no step of the loop changes the endpoints, the cancellation
\* flag, the task handle or a task; and a capture with a purpose that is
\* neither SRC nor DES changes none of them either.
C28_PacketsLeaveDragState ==
    [][/\ serverVars' # serverVars =>
             UNCHANGED <<captured_src_position, captured_dest_position,
                         stop_drag_loop_event, auto_drag_thread, task>>
       /\ \A c \in DOMAIN caller :
             Capture(c, "OTHER") =>
                 UNCHANGED <<captured_src_position, captured_dest_position,
                             stop_drag_loop_event, auto_drag_thread, task>>]_vars

\* C28's case: with both endpoints captured, an undecodable datagram has been
\* processed after another packet and the endpoints are as captured
C28_Witness ==
    /\ Handled
    /\ packet.enc = "badjson"
    /\ received = 2
    /\ captured_src_position = 1 /\ captured_dest_position = 2

ScrollCalls == {i \in 1..Len(xcalls) : xcalls[i].fn = "scroll"}

\* C29: for a scroll action and whatever number of clicks it carries (1 when
\* it carries none), when the executor returns: direction UP has made one
\* scroll call, of a strictly positive amount equal to the clicks; DOWN one
\* scroll call of a strictly negative amount equal to minus the clicks; any
\* other direction no scroll call.
C29_ScrollAmountSigned ==
    (/\ xpc = "returned"
     /\ xdata.type = "mouse_scroll"
     /\ xdata.clicks.kind # "nonnumber")
    => CASE xdata.direction = "UP" ->
              /\ Cardinality(ScrollCalls) = 1
              /\ \A i \in ScrollCalls :
                    xcalls[i].n > 0 /\ xcalls[i].n = xdata.clicks.n
         [] xdata.direction = "DOWN" ->
              /\ Cardinality(ScrollCalls) = 1
              /\ \A i \in ScrollCalls :
                    xcalls[i].n < 0 /\ xcalls[i].n = 0 - xdata.clicks.n
         [] OTHER -> ScrollCalls = {}

\* C30: a pointer action whose button is not LEFT, RIGHT or MIDDLE (its
\* pressType being an object or absent) makes no input event at all, leaves
\* nothing down, and the executor returns normally.
C30_UnknownButtonNoOp ==
    (/\ xdata.type = "mouse_event"
     /\ xdata.button \notin {"LEFT", "RIGHT", "MIDDLE"}
     /\ xdata.pressType # "nondict")
    => /\ xcalls = <<>>
       /\ xheld = {}
       /\ xpc \in {"entry", "returned"}

\* C30's case: a hold of an unknown button with two modifiers has returned
C30_Witness ==
    /\ xpc = "returned"
    /\ xdata.type = "mouse_event" /\ xdata.button = "BOGUS"
    /\ xdata.pressType = "hold"
    /\ Len(xdata.modifiers) = 2
    /\ xcalls = <<>>

\* the entries of xcalls that are latency log lines
LatencyEntries == {i \in 1..Len(xcalls) : xcalls[i].fn = "latency"}

\* the first input event of a primary action: a press, a click, a scroll, or
\* the down half of a hold of the key or button
IsPrimaryEvent(c) ==
    \/ c.fn \in {"press", "click", "mouseDown", "scroll"}
    \/ c.fn = "keyDown" /\ c.arg = xdata.key

C40_OneStopNoStartDuringStop ==
    /\ Cardinality({t \in StopIds :
                      stopper[t].pc \in {"started", "stop_server", "cleanup"}}) <= 1
    /\ ~startDuringStop

(***************************************************************************)
(* Properties of startup and shutdown (SpecServer, SpecServerFair).        *)
(***************************************************************************)

\* C21: a failure to register the service advertisement does not block
\* startup: unless a signal or a bind error ends it, main() is still running
\* after the failure (it goes on to bind and to the receive loop).
C21_MdnsFailureDoesNotBlock ==
    (mdns_error /\ ~signalled /\ ~bind_error) => mainResult = "running"

\* C22: once a stop signal has been raised, the receive loop observes it and
\* main() ends, even if no further datagram ever arrives.
C22_SignalEndsLoop == sig_pending ~> (mainPc = "terminated")

\* C23: the advertisement is released last: as long as the socket is bound
\* the service is still registered, and no drag task is alive once the socket
\* is closed.
C23_AdvertisementReleasedLast ==
    /\ server_socket = "bound" => zeroconf = "open"
    /\ server_socket = "closed" => LiveTasks = {}

\* C24: shutdown is idempotent.  The unregister of the cleanup block, run
\* after the signal handler has unregistered, changes nothing; the handler's
\* unregister with nothing registered changes nothing; and when the cleanup
\* block has run to its end the socket is closed, no advertisement is
\* registered and no advertiser instance is retained.
C24_ShutdownIdempotent ==
    /\ [][(mainPc = "finally_unregister" /\ signalled /\ mainPc' = "terminated")
            => UNCHANGED <<zeroconf, service_info, server_socket>>]_vars
    /\ [][(zeroconf = "None" /\ service_info = "None" /\ signalled' /\ ~signalled)
            => UNCHANGED <<zeroconf, service_info, server_socket>>]_vars
    /\ [](signalled => zeroconf = "None" /\ service_info = "None")
    /\ [](cleaned =>
            /\ server_socket = "closed"
            /\ zeroconf = "None"
            /\ service_info = "None")

\* C24's case: the handler ran with the service registered, then the cleanup
\* block ran to its end
C24_Witness ==
    /\ signalled /\ cleaned
    /\ mainPc = "terminated"
    /\ mainResult = "SystemExit"
    /\ received > 0

====
